---- MODULE Spec2Model ----
(***************************************************************************)
(* doc-img-extractor (src/main.cpp): the bounded-concurrency processing    *)
(* pipeline with progress accounting, the figure/text classifier and the   *)
(* page-file naming, as state machines.                                    *)
(*                                                                         *)
(*   Spec          the whole run: start_cb, update_ui_cb, the detached     *)
(*                 worker process_files_thread, process_document, the      *)
(*                 thread pools of the four stages and their job threads.  *)
(*   SpecPool      one pool stage in isolation, started with up to MaxJobs *)
(*                 jobs, in parallel or in serial mode.                    *)
(*   SpecNaming    the page-file names computed by the page jobs.          *)
(*   SpecClassify  the accept/reject scan of extractFigures.               *)
(*   SpecCandidates the contour loop of extractFigures.                    *)
(*   SpecFigures   one image from the candidate list to its figure files.  *)
(*   SpecEstimate  the work estimate of start_cb on documents of up to     *)
(*                 MaxEstimatePages pages.                                 *)
(*   SpecDjvuPage  one page of extract_djvu_images with its file sizes.    *)
(*   SpecTextBlock one call of isTextBlock with the text it counts.        *)
(***************************************************************************)
EXTENDS Integers, Sequences, FiniteSets, TLC

(***************************************************************************)
(* Bounds of the model.                                                    *)
(***************************************************************************)
MaxDocs == 2
MaxPages == 1
MaxImages == 1
MaxArchiveImages == 3
MaxFigures == 1
MaxRuns == 1
MaxJobs == 3
HardwareConcurrency == 1
MaxPageIndex == 10000
MaxCandidates == 2
MaxDensity == 21
MaxContours == 2
MaxSorted == 3
MaxArea == 3
MaxEstimatePages == 3
MaxWords == 27

VARIABLES
    caps,                    \* support_DJVU, support_PDF, ... (lines 37-43)
    input_files_vec,         \* the selected documents
    output_dir_chosen,       \* !output_dir_str.empty()
    controls_active,         \* b_input_files, b_output_dir, startb, multithread_toggle
    opencv_active,           \* opencv_toggle is selectable
    opencv_value,            \* opencv_toggle->value()
    multithread_value,       \* multithread_toggle->value()
    g_use_multithreading,
    g_total_work_units,
    g_processed_work_units,
    pct,                     \* progress_bar->value(), a fraction <<num, den>>
    timer_armed,             \* update_ui_cb is pending
    ui_pc,                   \* position of the main thread inside update_ui_cb
    status,                  \* status_box label
    runs,                    \* workers spawned so far
    crashed,                 \* std::terminate was called
    files,                   \* image files under the output root
    worker,                  \* run -> position of its process_files_thread
    pool,                    \* run -> the pool stage its worker is in
    naming,                  \* one page job computing its output file name
    scan,                    \* one call of extractFigures in its accept/reject loop
    gen,                     \* one call of extractFigures in its contour loop
    page_job,                \* one page of extract_djvu_images with its file sizes
    ocr                      \* one call of isTextBlock

pipeVars == <<caps, input_files_vec, output_dir_chosen, controls_active,
              opencv_active, opencv_value, multithread_value,
              g_use_multithreading, g_total_work_units, g_processed_work_units,
              pct, timer_armed, ui_pc, status, runs, crashed, files, worker, pool>>

\* The variables of the unit models of a page job's naming and of a scan.
unitVars == <<naming, scan, gen, page_job, ocr>>

vars == <<pipeVars, unitVars>>

\* No page job, no scan: the value of the unit variables in the pipeline model.
NoNaming == [kind |-> "none", page |-> 0, pc |-> "none", name |-> <<>>]
NoScan == [candidates |-> <<>>, use_tesseract |-> FALSE, support_TESSERACT |-> FALSE,
           init_ok |-> FALSE, tess |-> FALSE, useOCR |-> FALSE, i |-> 0,
           figures |-> <<>>, ocr_calls |-> <<>>, written |-> <<>>, pc |-> "none"]
NoGen == [cols |-> 0, rows |-> 0, contours |-> <<>>, c |-> 0, candidates |-> <<>>,
          pc |-> "none"]
NoPageJob == [parallel |-> FALSE, extract_status |-> 0, iw44_size |-> 0, png_size |-> 0,
              rendered |-> FALSE, output_png |-> FALSE, incs |-> 0, pc |-> "none"]
NoOcr == [tess |-> FALSE, conf |-> 0, text |-> <<>>, extractedTextOut |-> <<>>,
          result |-> FALSE, pc |-> "none"]

(***************************************************************************)
(* Documents and capabilities.                                             *)
(***************************************************************************)
FileTypes == {"pdf", "djvu", "zip_container", "doc_legacy", "unknown"}

\* What atoi() reads from the page-count probe: garbage or nothing (0), a
\* negative number, or a page count.
RawPageCounts == (-1) .. MaxPages


\* check_dependencies: soffice and unzip decide support_DOC and support_EPUB
\* together; the other flags are independent.
CapabilityMatrices ==
    {c \in [DJVU : BOOLEAN, PDF : BOOLEAN, PDF_RENDER : BOOLEAN, DOC : BOOLEAN,
            EPUB : BOOLEAN, OPENCV : BOOLEAN] : c.DOC = c.EPUB}

Max2(a, b) == IF a >= b THEN a ELSE b

MAX_RENDER_THREADS == Max2(2, HardwareConcurrency)
MAX_CV_THREADS == Max2(2, HardwareConcurrency)

get_page_count_unchecked(raw) == raw

\* get_page_count: the probed count when positive, else 1.
get_page_count(raw) == IF raw > 0 THEN raw ELSE 1

\* A document: its detected type (detect_file_type) and the page count
\* get_page_count returns for it (1 for every type but PDF and DJVU).
DocSet ==
    {[ftype |-> t, pages |-> get_page_count(raw)] : t \in {"pdf", "djvu"}, raw \in RawPageCounts}
        \cup [ftype : {"zip_container", "doc_legacy", "unknown"}, pages : {1}]

RECURSIVE SeqsUpTo(_, _)
SeqsUpTo(S, n) ==
    IF n = 0 THEN {<<>>}
    ELSE LET shorter == SeqsUpTo(S, n - 1)
         IN shorter \cup {Append(s, x) : s \in {t \in shorter : Len(t) = n - 1}, x \in S}

DocLists == SeqsUpTo(DocSet, MaxDocs) \ {<<>>}


(***************************************************************************)
(* Work Estimator (start_cb, lines 1012-1045).                             *)
(***************************************************************************)
\* The rendering path of the estimate (lines 1027-1029).
RenderPathAvailable(ftype, c) ==
    \/ (ftype = "pdf" /\ c.PDF_RENDER)
    \/ (ftype = "djvu" /\ c.DJVU)
    \/ ((c.DOC \/ c.EPUB) /\ c.PDF_RENDER)

DocCostPagesPlusOne(doc, use_opencv, c) ==
    IF use_opencv
    THEN IF RenderPathAvailable(doc.ftype, c) THEN doc.pages + 1 ELSE 6
    ELSE IF doc.ftype = "djvu" THEN doc.pages ELSE 1

\* One iteration of the loop of lines 1018-1043.
DocCost(doc, use_opencv, c) ==
    LET pages == doc.pages
    IN IF use_opencv
       THEN IF RenderPathAvailable(doc.ftype, c) THEN pages * 2 ELSE 6
       ELSE IF doc.ftype = "pdf" THEN 1
            ELSE IF doc.ftype = "djvu" THEN pages
            ELSE 1

RECURSIVE SumCost(_, _, _)
SumCost(docs, use_opencv, c) ==
    IF docs = <<>> THEN 0
    ELSE DocCost(Head(docs), use_opencv, c) + SumCost(Tail(docs), use_opencv, c)

\* g_total_work_units as start_cb leaves it (line 1045 floors it at 1).
EstimateTotal(docs, use_opencv, c) ==
    LET sum == SumCost(docs, use_opencv, c)
    IN IF sum = 0 THEN 1 ELSE sum

(***************************************************************************)
(* Progress percentage (update_ui_cb, lines 928-930), kept as an exact     *)
(* fraction <<numerator, denominator>>.                                    *)
(***************************************************************************)
PctLeq(a, b) == a[1] * b[2] <= b[1] * a[2]

ClampPctMissing(raw) == raw

\* Line 929: if (pct > 100.0f) pct = 100.0f.
ClampPct(raw) == IF raw[1] > 100 * raw[2] THEN <<100, 1>> ELSE raw

\* Lines 928-929.
Percentage(processed, total) == ClampPct(<<processed * 100, total>>)

(***************************************************************************)
(* Parallel Task Pool: the loop shared by render_pdf_pages,                *)
(* render_djvu_pages, extract_djvu_images and                              *)
(* process_extracted_images_with_opencv.                                   *)
(***************************************************************************)
Runs == 1 .. MaxRuns

StageKinds == {"pdf_render", "djvu_render", "djvu_extract", "cv"}

Cap(kind) == IF kind = "cv" THEN MAX_CV_THREADS ELSE MAX_RENDER_THREADS

NoPool == [kind |-> "none", doc |-> 0, jobs |-> <<>>, k |-> 1, threads |-> <<>>,
           active_threads |-> 0, pc |-> "none", j |-> 0]

\* The locals of a stage function at its first loop iteration: no thread
\* launched, active_threads = 0.
NewPool(kind, doc, inputs) ==
    [kind |-> kind, doc |-> doc,
     jobs |-> [n \in 1 .. Len(inputs) |->
                  [input |-> inputs[n], st |-> "new", launches |-> 0, incs |-> 0,
                   env |-> "none", figs |-> 0]],
     k |-> 1, threads |-> <<>>, active_threads |-> 0, pc |-> "iter", j |-> 0]

PageInputs(pages) == [p \in 1 .. pages |-> [kind |-> "page", idx |-> p]]

\* What the external commands of a job can do.
JobOutcomes(kind) ==
    IF kind = "djvu_extract"
    THEN {"extract_fail", "undersized", "render_fail", "ok"}
    ELSE {"ok", "fail"}

FigureCounts(kind, env) == IF kind = "cv" /\ env = "ok" THEN 0 .. MaxFigures ELSE {0}

\* render_single_pdf_page, render_single_djvu_page: the page file appears when
\* the renderer succeeds; the counter is incremented either way.
RenderJob(env) == [writes |-> env = "ok", inc |-> 1]

ParallelExtractJobRendersAlways(env) ==
    [writes |-> env \in {"ok", "undersized"},
     inc |-> IF env \in {"extract_fail", "undersized"} THEN 0 ELSE 1]

\* The lambda of extract_djvu_images (lines 678-701): it returns before the
\* increment when djvuextract fails or the artifact is undersized.
ParallelExtractJob(env) ==
    [writes |-> env = "ok",
     inc |-> IF env \in {"extract_fail", "undersized"} THEN 0 ELSE 1]

SerialExtractJobAsLambda(env) == ParallelExtractJob(env)

\* The serial branch of extract_djvu_images (lines 704-723).
SerialExtractJob(env) == [writes |-> env = "ok", inc |-> 1]

JobResult(kind, env, parallel) ==
    IF kind = "djvu_extract"
    THEN IF parallel THEN ParallelExtractJob(env) ELSE SerialExtractJob(env)
    ELSE RenderJob(env)

PageFile(doc, input) == [doc |-> doc, kind |-> input.kind, idx |-> input.idx, fig |-> 0]

\* process_single_image (lines 432-436): figures 1..N of one image.
FigureFiles(doc, input, n) ==
    {[doc |-> doc, kind |-> input.kind, idx |-> input.idx, fig |-> f] : f \in 1 .. n}

\* The files one job writes.
JobWrites(p, n, env, figs, parallel) ==
    IF p.kind = "cv"
    THEN FigureFiles(p.doc, p.jobs[n].input, figs)
    ELSE IF JobResult(p.kind, env, parallel).writes
         THEN {PageFile(p.doc, p.jobs[n].input)}
         ELSE {}

\* The increments of g_processed_work_units one job makes.
JobIncrements(kind, env, parallel) ==
    IF kind = "cv" THEN 1 ELSE JobResult(kind, env, parallel).inc

\* The body of job n of worker r's stage, run to completion.
RunJob(r, n, parallel, launched) ==
    \E env \in JobOutcomes(pool[r].kind) :
      \E figs \in FigureCounts(pool[r].kind, env) :
        /\ pool' = [pool EXCEPT ![r].jobs[n] =
                       [@ EXCEPT !.st = "done", !.env = env, !.figs = figs,
                                 !.launches = @ + launched,
                                 !.incs = @ + JobIncrements(pool[r].kind, env, parallel)],
                                ![r].k = @ + launched]
        /\ files' = files \cup JobWrites(pool[r], n, env, figs, parallel)
        /\ g_processed_work_units' =
               g_processed_work_units + JobIncrements(pool[r].kind, env, parallel)

ThrottledOffByOne(active, cap) == active > cap

\* The while condition of lines 476, 566, 614, 665.
Throttled(active, cap) == active >= cap

ScanNextBreak(j, n) == n + 1

\* The for loop of the throttle (lines 477-482) goes on to the next thread.
ScanNext(j, n) == j + 1

JoinReturnsAtOnce(st) == TRUE

\* t.join() returns when the thread's job has finished.
JoinReturns(st) == st = "done"

uiVars == <<controls_active, opencv_active, opencv_value, multithread_value, pct,
            timer_armed, ui_pc, status>>

\* What no step of a pool stage or of a job thread writes.
poolFrame == <<unitVars, caps, input_files_vec, output_dir_chosen, uiVars, g_use_multithreading,
               g_total_work_units, runs, crashed, worker>>

InStage(r) == pool[r].pc # "none" /\ ~crashed

\* threads.emplace_back(job); active_threads++.
PoolLaunch(r) ==
    /\ InStage(r) /\ pool[r].pc = "iter"
    /\ pool[r].k <= Len(pool[r].jobs)
    /\ g_use_multithreading
    /\ ~Throttled(pool[r].active_threads, Cap(pool[r].kind))
    /\ pool' = [pool EXCEPT
                   ![r].threads = Append(@, [job |-> pool[r].k, joinable |-> TRUE]),
                   ![r].active_threads = @ + 1,
                   ![r].jobs[pool[r].k] = [@ EXCEPT !.st = "running", !.launches = @ + 1],
                   ![r].k = @ + 1]
    /\ UNCHANGED <<poolFrame, files, g_processed_work_units>>

\* Parallel mode with the cap reached: enter the join scan over the threads.
PoolThrottle(r) ==
    /\ InStage(r) /\ pool[r].pc = "iter"
    /\ pool[r].k <= Len(pool[r].jobs)
    /\ g_use_multithreading
    /\ Throttled(pool[r].active_threads, Cap(pool[r].kind))
    /\ pool' = [pool EXCEPT ![r].pc = "scan", ![r].j = 1]
    /\ UNCHANGED <<poolFrame, files, g_processed_work_units>>

\* Serial mode: the job runs inline in the worker.
PoolSerialJob(r) ==
    /\ InStage(r) /\ pool[r].pc = "iter"
    /\ pool[r].k <= Len(pool[r].jobs)
    /\ ~g_use_multithreading
    /\ RunJob(r, pool[r].k, FALSE, 1)
    /\ UNCHANGED poolFrame

\* A job thread runs its job to completion.
JobThread(r, n) ==
    /\ InStage(r)
    /\ n \in 1 .. Len(pool[r].jobs)
    /\ pool[r].jobs[n].st = "running"
    /\ RunJob(r, n, TRUE, 0)
    /\ UNCHANGED poolFrame

\* The thread vector after the throttle scan: erase(remove_if(!joinable)).
EraseJoined(threads) == SelectSeq(threads, LAMBDA t : t.joinable)

\* One iteration of the throttle scan (lines 477-482): the thread is joined,
\* which blocks until its job has finished, and active_threads is decremented.
\* After the last thread the joined ones are erased and the while condition is
\* evaluated again.
PoolScanJoin(r) ==
    /\ InStage(r) /\ pool[r].pc = "scan"
    /\ LET j == pool[r].j
           t == pool[r].threads[j]
           next == ScanNext(j, Len(pool[r].threads))
           joined == [pool[r].threads EXCEPT ![j].joinable = FALSE]
       IN /\ t.joinable => JoinReturns(pool[r].jobs[t.job].st)
          /\ pool' = [pool EXCEPT
                         ![r].active_threads = IF t.joinable THEN @ - 1 ELSE @,
                         ![r].threads = IF next > Len(joined) THEN EraseJoined(joined)
                                        ELSE joined,
                         ![r].pc = IF next > Len(joined) THEN "iter" ELSE "scan",
                         ![r].j = IF next > Len(joined) THEN 0 ELSE next]
    /\ UNCHANGED <<poolFrame, files, g_processed_work_units>>

\* The loop is over and g_use_multithreading is set (lines 497, 585, 633,
\* 726): the remaining threads are joined.
PoolFinalDrain(r) ==
    /\ InStage(r) /\ pool[r].pc = "iter"
    /\ pool[r].k > Len(pool[r].jobs)
    /\ g_use_multithreading
    /\ pool[r].threads # <<>>
    /\ pool' = [pool EXCEPT ![r].pc = "drain", ![r].j = 1]
    /\ UNCHANGED <<poolFrame, files, g_processed_work_units>>

\* One iteration of the final join loop; after the last thread the stage
\* function returns.
PoolDrainJoin(r) ==
    /\ InStage(r) /\ pool[r].pc = "drain"
    /\ LET j == pool[r].j
           t == pool[r].threads[j]
       IN /\ t.joinable => JoinReturns(pool[r].jobs[t.job].st)
          /\ pool' = [pool EXCEPT
                         ![r].threads[j].joinable = FALSE,
                         ![r].pc = IF j + 1 > Len(pool[r].threads) THEN "returned"
                                   ELSE "drain",
                         ![r].j = IF j + 1 > Len(pool[r].threads) THEN 0 ELSE j + 1]
    /\ UNCHANGED <<poolFrame, files, g_processed_work_units>>

\* The loop is over and there is no thread to join: the stage function returns.
PoolReturn(r) ==
    /\ InStage(r) /\ pool[r].pc = "iter"
    /\ pool[r].k > Len(pool[r].jobs)
    /\ pool[r].threads = <<>>
    /\ pool' = [pool EXCEPT ![r].pc = "returned"]
    /\ UNCHANGED <<poolFrame, files, g_processed_work_units>>

\* The loop is over, the flag is off by now and the final join is skipped
\* while launched threads are still joinable: ~thread() calls std::terminate.
\* Only a start_cb during the stage turns the flag off, so the step needs a
\* second run and is no step of the specifications below.
PoolDestroyJoinable(r) ==
    /\ InStage(r) /\ pool[r].pc = "iter"
    /\ pool[r].k > Len(pool[r].jobs)
    /\ ~g_use_multithreading
    /\ pool[r].threads # <<>>
    /\ crashed' = TRUE
    /\ UNCHANGED <<unitVars, caps, input_files_vec, output_dir_chosen, uiVars,
                   g_use_multithreading, g_total_work_units, runs, worker, pool,
                   files, g_processed_work_units>>

PoolStep(r) ==
    \/ PoolLaunch(r)
    \/ PoolThrottle(r)
    \/ PoolSerialJob(r)
    \/ PoolScanJoin(r)
    \/ PoolFinalDrain(r)
    \/ PoolDrainJoin(r)
    \/ PoolReturn(r)

(***************************************************************************)
(* The background worker: process_files_thread and process_document.       *)
(***************************************************************************)
\* converted: -1 while the document has not been through the conversion of
\* lines 821-850, else what the conversion left (0: no usable PDF, n: a PDF of
\* n pages).
NoWorker == [pc |-> "none", i |-> 0, use_opencv |-> FALSE, converted |-> -1]

\* Lines 962-966 ("docx" and "epub" are never returned by detect_file_type).
SupportedWhenTypeKnown(ftype, c) == ftype # "unknown"
Supported(ftype, c) ==
    \/ (ftype = "pdf" /\ c.PDF)
    \/ (ftype = "djvu" /\ c.DJVU)
    \/ (ftype = "doc_legacy" /\ c.DOC)
    \/ (ftype = "zip_container" /\ c.EPUB)

AtDoc(r) == ~crashed /\ worker[r].pc = "loop"

NextDocSkipsOne(w) ==
    [pc |-> IF w.i + 2 > Len(input_files_vec) THEN "done" ELSE "loop",
     i |-> w.i + 2, use_opencv |-> FALSE, converted |-> -1]

\* The worker after a document: the next loop iteration, or the end of the
\* detached thread.
NextDoc(w) ==
    [pc |-> IF w.i + 1 > Len(input_files_vec) THEN "done" ELSE "loop",
     i |-> w.i + 1, use_opencv |-> FALSE, converted |-> -1]

CurDoc(r) == input_files_vec[worker[r].i]

\* What no step of the worker writes.
workerFrame == <<unitVars, caps, input_files_vec, output_dir_chosen, uiVars, g_use_multithreading,
                 g_total_work_units, runs, crashed>>

\* Lines 970-972: an unsupported document counts one work unit.
W_Unsupported(r) ==
    /\ AtDoc(r)
    /\ ~Supported(CurDoc(r).ftype, caps)
    /\ g_processed_work_units' = g_processed_work_units + 1
    /\ worker' = [worker EXCEPT ![r] = NextDoc(@)]
    /\ UNCHANGED <<workerFrame, files, pool>>

\* Line 801: stat() fails, process_document returns at once.
W_Missing(r) ==
    /\ AtDoc(r)
    /\ Supported(CurDoc(r).ftype, caps)
    /\ worker' = [worker EXCEPT ![r] = NextDoc(@)]
    /\ UNCHANGED <<workerFrame, files, pool, g_processed_work_units>>

\* Lines 813-820: render every page of a PDF or DJVU document.
DirectRenderWithoutCapability(ftype, c) == ftype \in {"pdf", "djvu"}
DirectRender(ftype, c) ==
    \/ (ftype = "pdf" /\ c.PDF_RENDER)
    \/ (ftype = "djvu" /\ c.DJVU)

\* Line 821.
ConvertPath(ftype, c) ==
    /\ ~DirectRender(ftype, c)
    /\ (c.DOC \/ c.EPUB) /\ c.PDF_RENDER

W_Render(r) ==
    /\ AtDoc(r)
    /\ Supported(CurDoc(r).ftype, caps)
    /\ opencv_value
    /\ DirectRender(CurDoc(r).ftype, caps)
    /\ worker' = [worker EXCEPT ![r].pc = "render", ![r].use_opencv = TRUE]
    /\ pool' = [pool EXCEPT ![r] =
                   NewPool(IF CurDoc(r).ftype = "pdf" THEN "pdf_render" ELSE "djvu_render",
                           worker[r].i, PageInputs(CurDoc(r).pages))]
    /\ UNCHANGED <<workerFrame, files, g_processed_work_units>>

\* Lines 842-844: the converted PDF is rendered when it was found and is
\* larger than 1000 bytes (conv = 0 when no such PDF came out, else the page
\* count of the converted PDF).
ConvertedUsableAlways(conv) == TRUE
ConvertedUsable(conv) == conv # 0

\* Lines 821-850: convert to PDF, render the converted PDF when it is usable.
W_Convert(r) ==
    /\ AtDoc(r)
    /\ Supported(CurDoc(r).ftype, caps)
    /\ opencv_value
    /\ ConvertPath(CurDoc(r).ftype, caps)
    /\ \E conv \in 0 .. MaxPages :
         IF ~ConvertedUsable(conv)
         THEN /\ worker' = [worker EXCEPT ![r].pc = "extract", ![r].use_opencv = TRUE,
                                          ![r].converted = conv]
              /\ UNCHANGED pool
         ELSE /\ worker' = [worker EXCEPT ![r].pc = "render", ![r].use_opencv = TRUE,
                                          ![r].converted = conv]
              /\ pool' = [pool EXCEPT ![r] =
                             NewPool("pdf_render", worker[r].i, PageInputs(conv))]
    /\ UNCHANGED <<workerFrame, files, g_processed_work_units>>

\* No page is rendered: on to line 853.
W_NoRender(r) ==
    /\ AtDoc(r)
    /\ Supported(CurDoc(r).ftype, caps)
    /\ ~opencv_value \/ (~DirectRender(CurDoc(r).ftype, caps) /\ ~ConvertPath(CurDoc(r).ftype, caps))
    /\ worker' = [worker EXCEPT ![r].pc = "extract", ![r].use_opencv = opencv_value]
    /\ UNCHANGED <<workerFrame, files, pool, g_processed_work_units>>

\* The numbers of images an unpacked archive may hold.
ArchiveImageCounts == {0, 1, MaxArchiveImages}

ImageFiles(doc, n) == {[doc |-> doc, kind |-> "img", idx |-> x, fig |-> 0] : x \in 1 .. n}

AtExtract(r, ftype) ==
    /\ ~crashed
    /\ worker[r].pc = "extract"
    /\ CurDoc(r).ftype = ftype

\* extract_pdf_images: pdfimages writes n classifiable images (0 on failure).
extract_pdf_images(r) ==
    /\ AtExtract(r, "pdf")
    /\ \E n \in 0 .. MaxImages : files' = files \cup ImageFiles(worker[r].i, n)
    /\ g_processed_work_units' = g_processed_work_units + 1
    /\ worker' = [worker EXCEPT ![r].pc = "cv_check"]
    /\ UNCHANGED <<workerFrame, pool>>

\* extract_zip_container: unzip writes n classifiable images (0 on failure).
extract_zip_container(r) ==
    /\ AtExtract(r, "zip_container")
    /\ \E n \in ArchiveImageCounts : files' = files \cup ImageFiles(worker[r].i, n)
    /\ g_processed_work_units' = g_processed_work_units + 1
    /\ worker' = [worker EXCEPT ![r].pc = "cv_check"]
    /\ UNCHANGED <<workerFrame, pool>>

\* convert_and_extract_legacy_doc: extract_zip_container runs on the converted
\* .docx only when the conversion left one.
convert_and_extract_legacy_doc(r) ==
    /\ AtExtract(r, "doc_legacy")
    /\ \E docx_found \in BOOLEAN :
         IF docx_found
         THEN /\ \E n \in 0 .. MaxImages : files' = files \cup ImageFiles(worker[r].i, n)
              /\ g_processed_work_units' = g_processed_work_units + 1
         ELSE UNCHANGED <<files, g_processed_work_units>>
    /\ worker' = [worker EXCEPT ![r].pc = "cv_check"]
    /\ UNCHANGED <<workerFrame, pool>>

\* extract_djvu_images up to its loop.
extract_djvu_images(r) ==
    /\ AtExtract(r, "djvu")
    /\ worker' = [worker EXCEPT ![r].pc = "djvu_extract"]
    /\ pool' = [pool EXCEPT ![r] =
                   NewPool("djvu_extract", worker[r].i,
                           PageInputs(CurDoc(r).pages))]
    /\ UNCHANGED <<workerFrame, files, g_processed_work_units>>

\* The listing of process_extracted_images_with_opencv (lines 453-465): the
\* images directly in the document's folder, in listing order.
ImageSlots ==
    [n \in 1 .. Max2(MaxImages, MaxArchiveImages) |-> [kind |-> "img", idx |-> n]]
        \o [n \in 1 .. Max2(MaxPages, MaxJobs) |-> [kind |-> "page", idx |-> n]]

ListImages(doc) ==
    SelectSeq(ImageSlots, LAMBDA s : PageFile(doc, s) \in files)

AtClassifyBeforeDrain(r) ==
    /\ ~crashed
    /\ \/ worker[r].pc = "cv_check"
       \/ pool[r].pc # "none" /\ pool[r].kind # "cv"

\* process_document is at line 868: an extraction command has returned, or
\* the render or extraction stage has.
AtClassify(r) ==
    /\ ~crashed
    /\ \/ worker[r].pc = "cv_check"
       \/ pool[r].pc = "returned" /\ pool[r].kind # "cv"

\* Lines 868-870 and 448-467: the classification stage starts when the vision
\* mode is on, the toolkit is there and the folder holds an image.
Classifies(r) ==
    worker[r].use_opencv /\ caps.OPENCV /\ ListImages(worker[r].i) # <<>>

W_Classify(r) ==
    /\ AtClassify(r)
    /\ Classifies(r)
    /\ worker' = [worker EXCEPT ![r].pc = "cv"]
    /\ pool' = [pool EXCEPT ![r] = NewPool("cv", worker[r].i, ListImages(worker[r].i))]
    /\ UNCHANGED <<workerFrame, files, g_processed_work_units>>

W_NoClassify(r) ==
    /\ AtClassify(r)
    /\ ~Classifies(r)
    /\ worker' = [worker EXCEPT ![r] = NextDoc(@)]
    /\ pool' = [pool EXCEPT ![r] = NoPool]
    /\ UNCHANGED <<workerFrame, files, g_processed_work_units>>

\* process_extracted_images_with_opencv has returned: process_document
\* returns, on to the next document.
W_Classified(r) ==
    /\ ~crashed
    /\ pool[r].pc = "returned" /\ pool[r].kind = "cv"
    /\ worker' = [worker EXCEPT ![r] = NextDoc(@)]
    /\ pool' = [pool EXCEPT ![r] = NoPool]
    /\ UNCHANGED <<workerFrame, files, g_processed_work_units>>

process_document(r) ==
    \/ W_Missing(r)
    \/ W_Render(r)
    \/ W_Convert(r)
    \/ W_NoRender(r)
    \/ extract_pdf_images(r)
    \/ extract_zip_container(r)
    \/ convert_and_extract_legacy_doc(r)
    \/ extract_djvu_images(r)
    \/ W_Classify(r)
    \/ W_NoClassify(r)
    \/ W_Classified(r)

process_files_thread(r) ==
    \/ W_Unsupported(r)
    \/ process_document(r)

(***************************************************************************)
(* The main thread: the user's controls, start_cb and the polling timer    *)
(* update_ui_cb.                                                           *)
(***************************************************************************)
MainIdle == ui_pc = "idle" /\ ~crashed

\* input_docs_cb: the chooser returns one or more documents. The documents
\* are chosen before the first run; a document's folder is identified by its
\* place in the list.
input_docs_cb ==
    /\ MainIdle /\ controls_active /\ runs = 0
    /\ \E docs \in DocLists : input_files_vec' = docs
    /\ UNCHANGED <<unitVars, caps, output_dir_chosen, uiVars, g_use_multithreading,
                   g_total_work_units, g_processed_work_units, runs, crashed, files,
                   worker, pool>>

output_dir_cb ==
    /\ MainIdle /\ controls_active /\ ~output_dir_chosen
    /\ output_dir_chosen' = TRUE
    /\ UNCHANGED <<unitVars, caps, input_files_vec, uiVars, g_use_multithreading,
                   g_total_work_units, g_processed_work_units, runs, crashed, files,
                   worker, pool>>

\* The user ticks or unticks "Enable OpenCV figure extraction".
opencv_toggle_click ==
    /\ MainIdle /\ opencv_active
    /\ opencv_value' = ~opencv_value
    /\ UNCHANGED <<unitVars, caps, input_files_vec, output_dir_chosen, controls_active,
                   opencv_active, multithread_value, pct, timer_armed, ui_pc, status,
                   g_use_multithreading, g_total_work_units, g_processed_work_units,
                   runs, crashed, files, worker, pool>>

\* The user ticks or unticks "Enable Multithreading".
multithread_toggle_click ==
    /\ MainIdle /\ controls_active
    /\ multithread_value' = ~multithread_value
    /\ UNCHANGED <<unitVars, caps, input_files_vec, output_dir_chosen, controls_active,
                   opencv_active, opencv_value, pct, timer_armed, ui_pc, status,
                   g_use_multithreading, g_total_work_units, g_processed_work_units,
                   runs, crashed, files, worker, pool>>

\* start_cb, lines 977-983.
StartNoInput ==
    /\ MainIdle /\ controls_active
    /\ Len(input_files_vec) = 0
    /\ status' = "Input files are not chosen!"
    /\ UNCHANGED <<unitVars, caps, input_files_vec, output_dir_chosen, controls_active,
                   opencv_active, opencv_value, multithread_value, pct, timer_armed,
                   ui_pc, g_use_multithreading, g_total_work_units,
                   g_processed_work_units, runs, crashed, files, worker, pool>>

\* start_cb, lines 984-990.
StartNoOutput ==
    /\ MainIdle /\ controls_active
    /\ Len(input_files_vec) # 0
    /\ ~output_dir_chosen
    /\ status' = "Output folder is not chosen!"
    /\ UNCHANGED <<unitVars, caps, input_files_vec, output_dir_chosen, controls_active,
                   opencv_active, opencv_value, multithread_value, pct, timer_armed,
                   ui_pc, g_use_multithreading, g_total_work_units,
                   g_processed_work_units, runs, crashed, files, worker, pool>>

\* start_cb, lines 992-1052: the controls are deactivated, the counters reset,
\* the estimate computed, the timer armed and the worker spawned.
StartRun ==
    /\ MainIdle /\ controls_active
    /\ Len(input_files_vec) # 0
    /\ output_dir_chosen
    /\ runs < MaxRuns
    /\ g_use_multithreading' = multithread_value
    /\ controls_active' = FALSE
    /\ opencv_active' = FALSE
    /\ pct' = <<0, 1>>
    /\ status' = "Calculating workload..."
    /\ g_total_work_units' = EstimateTotal(input_files_vec, opencv_value, caps)
    /\ g_processed_work_units' = 0
    /\ timer_armed' = TRUE
    /\ runs' = runs + 1
    /\ worker' = [worker EXCEPT ![runs + 1] = [pc |-> "loop", i |-> 1, use_opencv |-> FALSE,
                                              converted |-> -1]]
    /\ UNCHANGED <<unitVars, caps, input_files_vec, output_dir_chosen, opencv_value,
                   multithread_value, ui_pc, crashed, files, pool>>

start_cb == StartNoInput \/ StartNoOutput \/ StartRun

\* update_ui_cb, lines 928-932: the first read of the counter.
UiReport ==
    /\ MainIdle /\ timer_armed
    /\ pct' = Percentage(g_processed_work_units, g_total_work_units)
    /\ timer_armed' = FALSE
    /\ ui_pc' = "check"
    /\ UNCHANGED <<unitVars, caps, input_files_vec, output_dir_chosen, controls_active,
                   opencv_active, opencv_value, multithread_value, status,
                   g_use_multithreading, g_total_work_units, g_processed_work_units,
                   runs, crashed, files, worker, pool>>

\* Line 934, the second read of the counter.
RunComplete(processed, total) == processed >= total

\* update_ui_cb, lines 934-949: run-complete, the controls come back.
UiComplete ==
    /\ ui_pc = "check" /\ ~crashed
    /\ RunComplete(g_processed_work_units, g_total_work_units)
    /\ status' = "Extraction completed!"
    /\ controls_active' = TRUE
    /\ opencv_active' = TRUE
    /\ ui_pc' = "idle"
    /\ UNCHANGED <<unitVars, caps, input_files_vec, output_dir_chosen, opencv_value,
                   multithread_value, pct, timer_armed, g_use_multithreading,
                   g_total_work_units, g_processed_work_units, runs, crashed, files,
                   worker, pool>>

\* update_ui_cb, lines 950-952: not complete, poll again.
UiRepeat ==
    /\ ui_pc = "check" /\ ~crashed
    /\ ~RunComplete(g_processed_work_units, g_total_work_units)
    /\ timer_armed' = TRUE
    /\ ui_pc' = "idle"
    /\ UNCHANGED <<unitVars, caps, input_files_vec, output_dir_chosen, controls_active,
                   opencv_active, opencv_value, multithread_value, pct, status,
                   g_use_multithreading, g_total_work_units, g_processed_work_units,
                   runs, crashed, files, worker, pool>>

update_ui_cb == UiReport \/ UiComplete \/ UiRepeat

(***************************************************************************)
(* The whole program.                                                     *)
(***************************************************************************)
\* mkdir at line 808 keeps a folder that exists: the first document's folder
\* may hold images an earlier session of the program left there.
LeftoverFiles == SUBSET ImageFiles(1, MaxImages)

\* The state when the main window is shown: check_dependencies has filled the
\* capability flags and deactivated the vision toggle when the toolkit is
\* missing; nothing is selected, no run was started.
Init ==
    /\ caps \in CapabilityMatrices
    /\ input_files_vec = <<>>
    /\ output_dir_chosen = FALSE
    /\ controls_active = TRUE
    /\ opencv_active = caps.OPENCV
    /\ opencv_value = FALSE
    /\ multithread_value = TRUE
    /\ g_use_multithreading = TRUE
    /\ g_total_work_units = 0
    /\ g_processed_work_units = 0
    /\ pct = <<0, 1>>
    /\ timer_armed = FALSE
    /\ ui_pc = "idle"
    /\ status = ""
    /\ runs = 0
    /\ crashed = FALSE
    /\ files \in LeftoverFiles
    /\ worker = [r \in Runs |-> NoWorker]
    /\ pool = [r \in Runs |-> NoPool]
    /\ naming = NoNaming
    /\ scan = NoScan
    /\ gen = NoGen
    /\ page_job = NoPageJob
    /\ ocr = NoOcr

Next ==
    \/ input_docs_cb
    \/ output_dir_cb
    \/ opencv_toggle_click
    \/ multithread_toggle_click
    \/ start_cb
    \/ update_ui_cb
    \/ \E r \in Runs : process_files_thread(r)
    \/ \E r \in Runs : PoolStep(r)
    \/ \E r \in Runs : \E n \in 1 .. Len(pool[r].jobs) : JobThread(r, n)

Spec == Init /\ [][Next]_vars

(***************************************************************************)
(* One pool stage in isolation: the worker of the first run has just       *)
(* entered a stage function with n jobs, in parallel or in serial mode.    *)
(***************************************************************************)
AllCapabilities ==
    [DJVU |-> TRUE, PDF |-> TRUE, PDF_RENDER |-> TRUE, DOC |-> TRUE, EPUB |-> TRUE,
     OPENCV |-> TRUE]

InitPool ==
    \E kind \in StageKinds, n \in 1 .. MaxJobs, parallel \in BOOLEAN :
      LET vision == kind # "djvu_extract"
          doc == [ftype |-> IF kind \in {"pdf_render", "cv"} THEN "pdf" ELSE "djvu",
                  pages |-> n]
          rendered == {PageFile(1, PageInputs(n)[x]) : x \in 1 .. n}
      IN /\ caps = AllCapabilities
         /\ input_files_vec = <<doc>>
         /\ output_dir_chosen = TRUE
         /\ controls_active = FALSE
         /\ opencv_active = FALSE
         /\ opencv_value = vision
         /\ multithread_value = parallel
         /\ g_use_multithreading = parallel
         /\ g_total_work_units = EstimateTotal(<<doc>>, vision, AllCapabilities)
         /\ g_processed_work_units = IF kind = "cv" THEN n ELSE 0
         /\ pct = <<0, 1>>
         /\ timer_armed = TRUE
         /\ ui_pc = "idle"
         /\ status = "Calculating workload..."
         /\ runs = 1
         /\ crashed = FALSE
         /\ files = IF kind = "cv" THEN rendered ELSE {}
         /\ worker = [r \in Runs |->
                        IF r = 1
                        THEN [pc |-> IF kind = "cv" THEN "cv"
                                     ELSE IF kind = "djvu_extract" THEN "djvu_extract"
                                     ELSE "render",
                              i |-> 1, use_opencv |-> vision, converted |-> -1]
                        ELSE NoWorker]
         /\ pool = [r \in Runs |->
                      IF r = 1 THEN NewPool(kind, 1, PageInputs(n)) ELSE NoPool]
         /\ naming = NoNaming
         /\ scan = NoScan
         /\ gen = NoGen
         /\ page_job = NoPageJob
         /\ ocr = NoOcr

NextPool ==
    \/ \E r \in Runs : PoolStep(r)
    \/ \E r \in Runs : \E n \in 1 .. Len(pool[r].jobs) : JobThread(r, n)

SpecPool == InitPool /\ [][NextPool]_vars

(***************************************************************************)
(* The work estimate in isolation: start_cb is pressed on a chosen input   *)
(* list whose documents have up to MaxEstimatePages pages.                 *)
(***************************************************************************)
EstimateDocSet ==
    {[ftype |-> t, pages |-> get_page_count(raw)] :
        t \in {"pdf", "djvu"}, raw \in (-1) .. MaxEstimatePages}
        \cup [ftype : {"zip_container", "doc_legacy", "unknown"}, pages : {1}]

InitEstimate ==
    /\ caps \in CapabilityMatrices
    /\ input_files_vec \in SeqsUpTo(EstimateDocSet, MaxDocs)
    /\ output_dir_chosen \in BOOLEAN
    /\ controls_active = TRUE
    /\ opencv_active = caps.OPENCV
    /\ opencv_value \in {FALSE, caps.OPENCV}
    /\ multithread_value = TRUE
    /\ g_use_multithreading = TRUE
    /\ g_total_work_units = 0
    /\ g_processed_work_units = 0
    /\ pct = <<0, 1>>
    /\ timer_armed = FALSE
    /\ ui_pc = "idle"
    /\ status = ""
    /\ runs = 0
    /\ crashed = FALSE
    /\ files = {}
    /\ worker = [r \in Runs |-> NoWorker]
    /\ pool = [r \in Runs |-> NoPool]
    /\ naming = NoNaming
    /\ scan = NoScan
    /\ gen = NoGen
    /\ page_job = NoPageJob
    /\ ocr = NoOcr

NextEstimate == start_cb

SpecEstimate == InitEstimate /\ [][NextEstimate]_vars

(***************************************************************************)
(* The file name of a page job: render_single_djvu_page (lines 592-602)    *)
(* and the two branches of extract_djvu_images (lines 689-694, 710-715).   *)
(* Strings of digits are sequences over 0 .. 9.                            *)
(***************************************************************************)
RECURSIVE to_string(_)
to_string(n) == IF n < 10 THEN <<n>> ELSE Append(to_string(n \div 10), n % 10)

\* The number a string of digits reads as.
RECURSIVE stoi(_)
stoi(s) == IF s = <<>> THEN 0 ELSE 10 * stoi(SubSeq(s, 1, Len(s) - 1)) + s[Len(s)]

Zeros(n) == [x \in 1 .. n |-> 0]

\* ss << std::setw(4) << std::setfill('0') << page (line 594): a minimum
\* width, longer numbers are written whole.
SetwFill(s) == IF Len(s) >= 4 THEN s ELSE Zeros(4 - Len(s)) \o s

\* 4 - page_num.length() (lines 691, 712), in size_t: below zero the
\* difference wraps to 2^64 + (4 - length), written here as the negative
\* number itself.
PadCount(s) == 4 - Len(s)

\* std::string(count, '0') throws std::length_error beyond max_size(), which
\* every wrapped count is.
StringCtorThrows(count) == count < 0

Padded(s) == Zeros(PadCount(s)) \o s

NamingKinds == {"djvu_render", "djvu_extract_parallel", "djvu_extract_serial"}

\* All pipeline variables at rest, for the unit models.
PipelineAtRest ==
    /\ caps = AllCapabilities
    /\ input_files_vec = <<>>
    /\ output_dir_chosen = FALSE
    /\ controls_active = TRUE
    /\ opencv_active = TRUE
    /\ opencv_value = FALSE
    /\ multithread_value = TRUE
    /\ g_use_multithreading = TRUE
    /\ g_total_work_units = 0
    /\ g_processed_work_units = 0
    /\ pct = <<0, 1>>
    /\ timer_armed = FALSE
    /\ ui_pc = "idle"
    /\ status = ""
    /\ runs = 0
    /\ crashed = FALSE
    /\ files = {}
    /\ worker = [r \in Runs |-> NoWorker]
    /\ pool = [r \in Runs |-> NoPool]

\* A page job of a DJVU stage is about to name its output file.
InitNaming ==
    /\ PipelineAtRest
    /\ scan = NoScan
    /\ gen = NoGen
    /\ page_job = NoPageJob
    /\ ocr = NoOcr
    /\ \E kind \in NamingKinds, page \in 1 .. MaxPageIndex :
         naming = [kind |-> kind, page |-> page, pc |-> "start", name |-> <<>>]

namingFrame == <<caps, input_files_vec, output_dir_chosen, uiVars, g_use_multithreading,
                 g_total_work_units, g_processed_work_units, runs, files, worker,
                 pool, scan, gen, page_job, ocr>>

\* render_single_djvu_page, lines 593-597.
NameRenderedPage ==
    /\ naming.pc = "start" /\ naming.kind = "djvu_render"
    /\ naming' = [naming EXCEPT !.pc = "named",
                                !.name = SetwFill(to_string(naming.page))]
    /\ UNCHANGED <<namingFrame, crashed>>

\* extract_djvu_images, lines 690-692 and 711-713.
NameExtractedPage ==
    /\ naming.pc = "start" /\ naming.kind # "djvu_render"
    /\ ~StringCtorThrows(PadCount(to_string(naming.page)))
    /\ naming' = [naming EXCEPT !.pc = "named",
                                !.name = Padded(to_string(naming.page))]
    /\ UNCHANGED <<namingFrame, crashed>>

\* Lines 691 and 712: the std::length_error leaves the job thread (parallel)
\* or the detached worker (serial) uncaught, and std::terminate is called.
NameThrows ==
    /\ naming.pc = "start" /\ naming.kind # "djvu_render"
    /\ StringCtorThrows(PadCount(to_string(naming.page)))
    /\ naming' = [naming EXCEPT !.pc = "terminated"]
    /\ crashed' = TRUE
    /\ UNCHANGED namingFrame

NextNaming == NameRenderedPage \/ NameExtractedPage \/ NameThrows

SpecNaming == InitNaming /\ [][NextNaming]_vars

(***************************************************************************)
(* One page of extract_djvu_images with the sizes of its files: the lambda *)
(* of lines 678-701 (parallel) and the else branch of lines 704-722         *)
(* (serial). A size of -1 stands for a file that does not exist.           *)
(***************************************************************************)
SIZE_THRESHOLD == 200
FinalCheckSize == 1000

\* What djvuextract leaves as page_N.iw44 and ddjvu as page_NNNN.png.
ArtifactSizes == {-1, SIZE_THRESHOLD - 1, SIZE_THRESHOLD, SIZE_THRESHOLD + 1}
PngSizes == {-1, FinalCheckSize - 1, FinalCheckSize, FinalCheckSize + 1}

\* Lines 684 and 707: stat succeeds and st_size > SIZE_THRESHOLD.
ArtifactUsable(size) == size >= 0 /\ size > SIZE_THRESHOLD

\* The condition of lines 696 and 716: stat succeeds and st_size > 1000.
FinalCheck(size) == size >= 0 /\ size > FinalCheckSize

InitDjvuPage ==
    /\ PipelineAtRest
    /\ naming = NoNaming
    /\ scan = NoScan
    /\ gen = NoGen
    /\ ocr = NoOcr
    /\ \E parallel \in BOOLEAN, ret \in {0, 1}, iw44 \in ArtifactSizes, png \in PngSizes :
         page_job = [parallel |-> parallel, extract_status |-> ret,
                     iw44_size |-> iw44, png_size |-> png, rendered |-> FALSE,
                     output_png |-> FALSE, incs |-> 0, pc |-> "start"]

pageFrame == <<pipeVars, naming, scan, gen, ocr>>

\* The page ends without a render: the lambda returns before its increment
\* (lines 681, 684-687), the serial branch goes on to line 722.
PageSkipped ==
    [page_job EXCEPT !.pc = "returned",
                     !.incs = IF page_job.parallel THEN @ ELSE @ + 1]

\* Lines 681 and 706: djvuextract returned non-zero.
PageExtractFails ==
    /\ page_job.pc = "start"
    /\ page_job.extract_status # 0
    /\ page_job' = PageSkipped
    /\ UNCHANGED pageFrame

\* Lines 684-687 and 707: the artifact is missing or not above the threshold.
PageArtifactRejected ==
    /\ page_job.pc = "start"
    /\ page_job.extract_status = 0
    /\ ~ArtifactUsable(page_job.iw44_size)
    /\ page_job' = PageSkipped
    /\ UNCHANGED pageFrame

\* Lines 690-694 and 711-715: ddjvu renders the page into the output folder.
PageRender ==
    /\ page_job.pc = "start"
    /\ page_job.extract_status = 0
    /\ ArtifactUsable(page_job.iw44_size)
    /\ page_job' = [page_job EXCEPT !.pc = "check", !.rendered = TRUE,
                                    !.output_png = page_job.png_size >= 0]
    /\ UNCHANGED pageFrame

\* Lines 696-700 and 716-722: both branches of the final check leave the
\* rendered file where it is (the body of the if is a comment, there is no
\* else); the artifact is unlinked and the counter incremented.
PageFinalCheck ==
    /\ page_job.pc = "check"
    /\ page_job' = [page_job EXCEPT
                       !.pc = "returned",
                       !.output_png = IF FinalCheck(page_job.png_size) THEN @ ELSE @,
                       !.incs = @ + 1]
    /\ UNCHANGED pageFrame

NextDjvuPage == PageExtractFails \/ PageArtifactRejected \/ PageRender \/ PageFinalCheck

SpecDjvuPage == InitDjvuPage /\ [][NextDjvuPage]_vars

(***************************************************************************)
(* The accept/reject scan of extractFigures, lines 368-402, over the       *)
(* candidates in the order the sort at line 363 left them. A candidate is  *)
(* its text density in percent, the verdict of hasGraphicalContent on its  *)
(* region and what Tesseract reports on it when asked.                     *)
(***************************************************************************)
DenseThreshold == 20
SparseThreshold == 2
PureTextThreshold == 10
ConfThreshold == 70
WordThreshold == 25

Candidates ==
    [textDensity : 0 .. MaxDensity, hasGraphics : BOOLEAN,
     conf : {ConfThreshold, ConfThreshold + 1},
     wordCount : {WordThreshold, WordThreshold + 1}]

isTextBlockAtThreshold(tess, c) ==
    IF ~tess THEN FALSE ELSE c.conf >= ConfThreshold /\ c.wordCount >= WordThreshold

\* isTextBlock, lines 282-307.
isTextBlock(tess, c) ==
    IF ~tess THEN FALSE ELSE c.conf > ConfThreshold /\ c.wordCount > WordThreshold

\* isLikelyPureTextCV, lines 309-312.
isLikelyPureTextCVLoose(textDensity) == textDensity > PureTextThreshold + 1
isLikelyPureTextCV(textDensity) == textDensity > PureTextThreshold

\* Lines 373-375: a heavily marked candidate is kept when it has graphics.
DenseVerdictIgnoresGraphics(hasGraphics) == TRUE
DenseVerdict(hasGraphics) == hasGraphics

\* The branch of the loop body a candidate leaves by.
BranchSparseLast(c, useOCR, tess) ==
    IF c.textDensity > DenseThreshold THEN "dense"
    ELSE IF isLikelyPureTextCV(c.textDensity) THEN "pure_text"
    ELSE IF useOCR /\ tess /\ isTextBlock(tess, c) THEN "ocr_text"
    ELSE IF c.textDensity < SparseThreshold THEN "sparse"
    ELSE "graphics"

Branch(c, useOCR, tess) ==
    IF c.textDensity > DenseThreshold THEN "dense"
    ELSE IF c.textDensity < SparseThreshold THEN "sparse"
    ELSE IF isLikelyPureTextCV(c.textDensity) THEN "pure_text"
    ELSE IF useOCR /\ tess /\ isTextBlock(tess, c) THEN "ocr_text"
    ELSE "graphics"

OcrAskedBeforeDensityChecks(c, useOCR, tess) == useOCR /\ tess

\* Lines 388-390: isTextBlock is called on the candidates that reach it.
OcrAsked(c, useOCR, tess) ==
    Branch(c, useOCR, tess) \in {"ocr_text", "graphics"} /\ useOCR /\ tess

\* process_single_image, lines 410-419: the handle is there when OCR was asked
\* for, Tesseract was found at start-up and Init("eng") succeeded.
TessHandleWithoutInitCheck(use_tesseract, supported, init_ok) ==
    use_tesseract /\ supported
TessHandle(use_tesseract, supported, init_ok) ==
    use_tesseract /\ supported /\ init_ok

\* extractFigures is entered from process_single_image (line 423) with the
\* handle and useOCR = (tess != nullptr).
InitClassify ==
    /\ PipelineAtRest
    /\ naming = NoNaming
    /\ gen = NoGen
    /\ page_job = NoPageJob
    /\ ocr = NoOcr
    /\ \E cs \in SeqsUpTo(Candidates, MaxCandidates) \ {<<>>},
          use_tesseract \in BOOLEAN, supported \in BOOLEAN, init_ok \in BOOLEAN :
         LET tess == TessHandle(use_tesseract, supported, init_ok)
         IN scan = [candidates |-> cs, use_tesseract |-> use_tesseract,
                    support_TESSERACT |-> supported, init_ok |-> init_ok,
                    tess |-> tess, useOCR |-> tess, i |-> 1,
                    figures |-> <<>>, ocr_calls |-> <<>>, written |-> <<>>,
                    pc |-> "loop"]

scanFrame == <<pipeVars, naming, gen, page_job, ocr>>

AtCandidate(branch) ==
    /\ scan.pc = "loop"
    /\ scan.i <= Len(scan.candidates)
    /\ Branch(scan.candidates[scan.i], scan.useOCR, scan.tess) = branch

\* The scan after the candidate: figures.push_back(bbox) when it is accepted.
Scanned(accepted) ==
    [scan EXCEPT
       !.i = @ + 1,
       !.figures = IF accepted THEN Append(@, scan.i) ELSE @,
       !.ocr_calls = IF OcrAsked(scan.candidates[scan.i], scan.useOCR, scan.tess)
                     THEN Append(@, scan.i) ELSE @]

\* Lines 372-377.
ScanDense ==
    /\ AtCandidate("dense")
    /\ scan' = Scanned(DenseVerdict(scan.candidates[scan.i].hasGraphics))
    /\ UNCHANGED scanFrame

\* Lines 379-382.
ScanSparse ==
    /\ AtCandidate("sparse")
    /\ scan' = Scanned(TRUE)
    /\ UNCHANGED scanFrame

\* Lines 384-386.
ScanPureText ==
    /\ AtCandidate("pure_text")
    /\ scan' = Scanned(FALSE)
    /\ UNCHANGED scanFrame

\* Lines 388-397.
ScanOcrText ==
    /\ AtCandidate("ocr_text")
    /\ scan' = Scanned(FALSE)
    /\ UNCHANGED scanFrame

\* Lines 399-401.
ScanGraphics ==
    /\ AtCandidate("graphics")
    /\ scan' = Scanned(scan.candidates[scan.i].hasGraphics)
    /\ UNCHANGED scanFrame

\* Line 404: return figures.
ScanReturn ==
    /\ scan.pc = "loop"
    /\ scan.i > Len(scan.candidates)
    /\ scan' = [scan EXCEPT !.pc = "returned"]
    /\ UNCHANGED scanFrame

NextClassify ==
    \/ ScanDense
    \/ ScanSparse
    \/ ScanPureText
    \/ ScanOcrText
    \/ ScanGraphics
    \/ ScanReturn

SpecClassify == InitClassify /\ [][NextClassify]_vars

(***************************************************************************)
(* The contour loop of extractFigures, lines 328-361: the bounding box of  *)
(* each contour is filtered by area and size, padded and stored. Lengths   *)
(* are in pixels.                                                          *)
(***************************************************************************)
MinSide == 100

\* The images and the bounding boxes cv::boundingRect may return in them:
\* boxes inside the image, away from, near and on its edges.
ImageSizes == {[cols |-> 1000, rows |-> 1000], [cols |-> 1400, rows |-> 1000]}
BoxSides == {99, 100, 300, 700, 980, 1000}
BoxOffsets == {0, 2, 100}

\* The placements of a side of a box along a dimension of the image.
Spans(length) ==
    {sp \in [lo : BoxOffsets \cup {length - side : side \in BoxSides}, side : BoxSides] :
        /\ sp.lo >= 0 /\ sp.lo + sp.side <= length
        /\ sp.lo \in BoxOffsets \/ sp.lo + sp.side = length}

BoxesIn(cols, rows) ==
    {[x |-> h.lo, y |-> v.lo, width |-> h.side, height |-> v.side] :
        h \in Spans(cols), v \in Spans(rows)}

\* The largest power of two that is at most n, n >= 1.
RECURSIVE Pow2Floor(_)
Pow2Floor(n) == IF n < 2 THEN 1 ELSE 2 * Pow2Floor(n \div 2)

\* area < minArea, minArea the double rows * cols * 0.01 (lines 331, 337).
\* The double nearest to 0.01 exceeds it by a relative 2.1e-17, less than
\* half a unit in the last place of any product: the product is the exact
\* hundredth whenever that is a whole number, so the test is the exact one.
BelowMinArea(area, pixels) == 100 * area < pixels

\* area > maxArea, maxArea the double rows * cols * 0.7 (lines 332, 337).
\* The double nearest to 0.7 is 0.7 * (1 - 1/(7 * 2^51)): the product is
\* rounded to the double below the exact 70% when that lies in the upper
\* quarter of its binade (4 * B > 7 * 2^e for 2^e <= B < 2^(e+1)), and an
\* area of exactly 70% then compares greater.
AboveMaxArea(area, pixels) ==
    IF 10 * area # 7 * pixels THEN 10 * area > 7 * pixels
    ELSE 4 * area > 7 * Pow2Floor(area)

\* Line 338.
TooSmall(bbox) == bbox.width < MinSide \/ bbox.height < MinSide

\* (int)(side * 0.05), lines 340-341: the floor of the twentieth.
Pad(side) == side \div 20

\* Lines 340-354.
PaddedBoxUnclamped(bbox, cols, rows) ==
    [x |-> bbox.x - Pad(bbox.width), y |-> bbox.y - Pad(bbox.height),
     width |-> bbox.width + 2 * Pad(bbox.width),
     height |-> bbox.height + 2 * Pad(bbox.height)]
PaddedBox(bbox, cols, rows) ==
    LET padX == Pad(bbox.width)
        padY == Pad(bbox.height)
        x == IF bbox.x - padX < 0 THEN 0 ELSE bbox.x - padX
        y == IF bbox.y - padY < 0 THEN 0 ELSE bbox.y - padY
        width == bbox.width + 2 * padX
        height == bbox.height + 2 * padY
    IN [x |-> x, y |-> y,
        width |-> IF x + width > cols THEN cols - x ELSE width,
        height |-> IF y + height > rows THEN rows - y ELSE height]

SpecCandidatesContours(cols, rows) == SeqsUpTo(BoxesIn(cols, rows), MaxContours)

InitCandidates ==
    /\ PipelineAtRest
    /\ naming = NoNaming
    /\ scan = NoScan
    /\ page_job = NoPageJob
    /\ ocr = NoOcr
    /\ \E img \in ImageSizes :
         \E cs \in SpecCandidatesContours(img.cols, img.rows) :
            gen = [cols |-> img.cols, rows |-> img.rows, contours |-> cs, c |-> 1,
                   candidates |-> <<>>, pc |-> "loop"]

genFrame == <<pipeVars, naming, scan, page_job, ocr>>

AtContour ==
    /\ gen.pc = "loop"
    /\ gen.c <= Len(gen.contours)

Bbox == gen.contours[gen.c]
BboxArea == Bbox.width * Bbox.height
Pixels == gen.rows * gen.cols

\* Line 337: continue.
GenSkipArea ==
    /\ AtContour
    /\ BelowMinArea(BboxArea, Pixels) \/ AboveMaxArea(BboxArea, Pixels)
    /\ gen' = [gen EXCEPT !.c = @ + 1]
    /\ UNCHANGED genFrame

\* Line 338: continue.
GenSkipSmall ==
    /\ AtContour
    /\ ~(BelowMinArea(BboxArea, Pixels) \/ AboveMaxArea(BboxArea, Pixels))
    /\ TooSmall(Bbox)
    /\ gen' = [gen EXCEPT !.c = @ + 1]
    /\ UNCHANGED genFrame

\* Lines 340-360: candidates.push_back({paddedBox, textDensity, area}).
GenPush ==
    /\ AtContour
    /\ ~(BelowMinArea(BboxArea, Pixels) \/ AboveMaxArea(BboxArea, Pixels))
    /\ ~TooSmall(Bbox)
    /\ gen' = [gen EXCEPT
                 !.c = @ + 1,
                 !.candidates = Append(@, [bbox |-> PaddedBox(Bbox, gen.cols, gen.rows),
                                           area |-> BboxArea, contour |-> gen.c])]
    /\ UNCHANGED genFrame

\* The loop is over, line 361.
GenDone ==
    /\ gen.pc = "loop"
    /\ gen.c > Len(gen.contours)
    /\ gen' = [gen EXCEPT !.pc = "listed"]
    /\ UNCHANGED genFrame

NextCandidates == GenSkipArea \/ GenSkipSmall \/ GenPush \/ GenDone

SpecCandidates == InitCandidates /\ [][NextCandidates]_vars

(***************************************************************************)
(* One image from the candidate list to the figure files: the sort at      *)
(* lines 363-366, the scan, and the write loop of process_single_image,    *)
(* lines 432-436. Areas are ranks, only their order matters.               *)
(***************************************************************************)
\* Candidates as the contour loop leaves them, in contour order, of a density
\* of each band, on which Tesseract reports a text block when asked.
ListedCandidates ==
    [textDensity : {SparseThreshold - 1, SparseThreshold, PureTextThreshold + 1,
                    DenseThreshold + 1},
     hasGraphics : BOOLEAN,
     conf : {ConfThreshold + 1}, wordCount : {WordThreshold + 1},
     area : 1 .. MaxArea]

\* The comparator of std::sort, line 365.
AreaLess(a, b) == a.area < b.area
AreaGreater(a, b) == a.area > b.area

\* What std::sort guarantees of its result: a permutation in which no
\* element goes before an earlier one; the order of equal areas is left open.
IsSorted(seq) ==
    \A x, y \in 1 .. Len(seq) : x < y => ~AreaGreater(seq[y], seq[x])

Orderings(n) ==
    {f \in [1 .. n -> 1 .. n] : \A x, y \in 1 .. n : f[x] = f[y] => x = y}

\* The file index of figures[i], i from 0: std::to_string(i+1), line 434.
FigureIndex(i) == i + 1

InitFigures ==
    /\ PipelineAtRest
    /\ naming = NoNaming
    /\ gen = NoGen
    /\ page_job = NoPageJob
    /\ ocr = NoOcr
    /\ \E cs \in SeqsUpTo(ListedCandidates, MaxSorted) \ {<<>>}, use_tesseract \in BOOLEAN :
         scan = [candidates |-> [x \in 1 .. Len(cs) |->
                                    [textDensity |-> cs[x].textDensity,
                                     hasGraphics |-> cs[x].hasGraphics,
                                     conf |-> cs[x].conf, wordCount |-> cs[x].wordCount,
                                     area |-> cs[x].area, contour |-> x]],
                 use_tesseract |-> use_tesseract, support_TESSERACT |-> TRUE,
                 init_ok |-> TRUE, tess |-> TessHandle(use_tesseract, TRUE, TRUE),
                 useOCR |-> TessHandle(use_tesseract, TRUE, TRUE), i |-> 1,
                 figures |-> <<>>, ocr_calls |-> <<>>, written |-> <<>>,
                 pc |-> "sort"]

\* Lines 363-366.
SortCandidates ==
    /\ scan.pc = "sort"
    /\ \E f \in Orderings(Len(scan.candidates)) :
         LET sorted == [x \in 1 .. Len(scan.candidates) |-> scan.candidates[f[x]]]
         IN /\ IsSorted(sorted)
            /\ scan' = [scan EXCEPT !.candidates = sorted, !.pc = "loop"]
    /\ UNCHANGED scanFrame

\* Lines 432-436: one iteration of the write loop.
WriteFigure ==
    /\ scan.pc = "returned"
    /\ Len(scan.written) < Len(scan.figures)
    /\ scan' = [scan EXCEPT
                  !.written = Append(@, [index |-> FigureIndex(Len(scan.written)),
                                         cand |-> scan.figures[Len(scan.written) + 1]])]
    /\ UNCHANGED scanFrame

\* The write loop is over.
WriteDone ==
    /\ scan.pc = "returned"
    /\ Len(scan.written) = Len(scan.figures)
    /\ scan' = [scan EXCEPT !.pc = "written"]
    /\ UNCHANGED scanFrame

NextFigures ==
    \/ SortCandidates
    \/ ScanDense
    \/ ScanSparse
    \/ ScanPureText
    \/ ScanOcrText
    \/ ScanGraphics
    \/ ScanReturn
    \/ WriteFigure
    \/ WriteDone

SpecFigures == InitFigures /\ [][NextFigures]_vars

(***************************************************************************)
(* One call of isTextBlock (lines 282-307) with countWords (lines 274-280). *)
(* The text Tesseract returns is a sequence of characters.                 *)
(***************************************************************************)
Whitespace == {" ", "\t", "\n"}

\* ss >> word first skips the leading whitespace ...
RECURSIVE SkipWhitespace(_)
SkipWhitespace(s) ==
    IF s # <<>> /\ Head(s) \in Whitespace THEN SkipWhitespace(Tail(s)) ELSE s

\* ... and then takes the characters up to the next whitespace.
RECURSIVE SkipWord(_)
SkipWord(s) ==
    IF s # <<>> /\ Head(s) \notin Whitespace THEN SkipWord(Tail(s)) ELSE s

\* countWords: one count per successful extraction.
RECURSIVE countWords(_)
countWords(text) ==
    LET s == SkipWhitespace(text)
    IN IF s = <<>> THEN 0 ELSE 1 + countWords(SkipWord(s))

RECURSIVE Repeat(_, _)
Repeat(n, s) == IF n = 0 THEN <<>> ELSE s \o Repeat(n - 1, s)

\* The texts of the calls: n words with a separator between them, with or
\* without whitespace at the ends.
TextOf(n, word, sep, margin) ==
    IF n = 0 THEN margin
    ELSE margin \o Repeat(n - 1, word \o sep) \o word \o margin

Texts ==
    {TextOf(n, word, sep, margin) :
        n \in {0, 1, WordThreshold - 1, WordThreshold, WordThreshold + 1, MaxWords},
        word \in {<<"a">>, <<"f", "i", "g", ".">>},
        sep \in {<<" ">>, <<" ", " ">>, <<"\n">>, <<"\t", "\n">>},
        margin \in {<<>>, <<" ">>, <<"\n", "\n">>}}

\* What MeanTextConf returns.
Confidences == {0, ConfThreshold - 1, ConfThreshold, ConfThreshold + 1, 100}

InitTextBlock ==
    /\ PipelineAtRest
    /\ naming = NoNaming
    /\ scan = NoScan
    /\ gen = NoGen
    /\ page_job = NoPageJob
    /\ \E tess \in BOOLEAN, conf \in Confidences, text \in Texts :
         ocr = [tess |-> tess, conf |-> conf, text |-> text, extractedTextOut |-> <<>>,
                result |-> FALSE, pc |-> "call"]

ocrFrame == <<pipeVars, naming, scan, gen, page_job>>

\* Line 283.
TextBlockNoEngine ==
    /\ ocr.pc = "call"
    /\ ~ocr.tess
    /\ ocr' = [ocr EXCEPT !.pc = "returned", !.result = FALSE]
    /\ UNCHANGED ocrFrame

\* Lines 285-306.
TextBlockRecognize ==
    /\ ocr.pc = "call"
    /\ ocr.tess
    /\ ocr' = [ocr EXCEPT
                  !.pc = "returned",
                  !.extractedTextOut = ocr.text,
                  !.result = isTextBlock(TRUE, [conf |-> ocr.conf,
                                                wordCount |-> countWords(ocr.text)])]
    /\ UNCHANGED ocrFrame

NextTextBlock == TextBlockNoEngine \/ TextBlockRecognize

SpecTextBlock == InitTextBlock /\ [][NextTextBlock]_vars

(***************************************************************************)
(* Claims about the pool stages (SpecPool).                                *)
(***************************************************************************)
JobsOf(r) == 1 .. Len(pool[r].jobs)
ThreadsOf(r) == 1 .. Len(pool[r].threads)

\* The threads of worker r's stage that were launched and are not yet joined.
Unjoined(r) == {t \in ThreadsOf(r) : pool[r].threads[t].joinable}

\* C1: every pool job (PDF page render, DJVU page render, DJVU per-page
\* extraction, per-image classification) has incremented the processed
\* counter exactly once by the time it completes, whether it succeeded or
\* failed, in parallel and in serial mode.
C1_EveryJobCountsOnce ==
    \A r \in Runs : \A n \in JobsOf(r) :
        pool[r].jobs[n].st = "done" => pool[r].jobs[n].incs = 1

\* C5: in parallel mode, in every pool stage, the number of job threads that
\* were launched and are not yet joined never exceeds the cap
\* C = max(2, hardware parallelism) of the stage.
C5_UnjoinedWithinCap ==
    \A r \in Runs :
        /\ Cardinality(Unjoined(r)) <= Cap(pool[r].kind)
        /\ pool[r].active_threads <= Cap(pool[r].kind)

\* The cap is reached in parallel mode with a job still to launch.
C5_Witness ==
    \E r \in Runs :
        /\ g_use_multithreading
        /\ pool[r].pc = "scan"
        /\ Cardinality(Unjoined(r)) = Cap(pool[r].kind)
        /\ pool[r].k <= Len(pool[r].jobs)

\* C6 as stated: with the cap reached, the pool launches the next job as soon
\* as one launched job has completed; it does not wait for the other running
\* jobs. So the pool is never blocked in a join on a running job while another
\* launched job has already completed.
C6_NotBlockedOnceOneCompleted ==
    \A r \in Runs :
        (/\ pool[r].pc = "scan"
         /\ \E t \in Unjoined(r) : pool[r].jobs[pool[r].threads[t].job].st = "done")
        => LET cur == pool[r].threads[pool[r].j]
           IN ~(cur.joinable /\ pool[r].jobs[cur.job].st = "running")

\* The batch of C consecutive jobs job n is launched in.
Batch(r, n) == (n - 1) \div Cap(pool[r].kind)

\* C6 as amended: with the cap reached, the pool joins every launched thread,
\* so it waits for all C running jobs to complete before it launches the
\* next job: a job is launched only when every job of the earlier batches of
\* C jobs has completed.
C6_JoinsAllBeforeLaunch ==
    \A r \in Runs : \A m, n \in JobsOf(r) :
        (/\ g_use_multithreading
         /\ pool[r].jobs[n].st # "new"
         /\ Batch(r, m) < Batch(r, n))
        => pool[r].jobs[m].st = "done"

\* A job beyond the cap has been launched in parallel mode.
C6_Witness ==
    \E r \in Runs : \E n \in JobsOf(r) :
        /\ g_use_multithreading
        /\ n > Cap(pool[r].kind)
        /\ pool[r].jobs[n].st = "running"

\* C7: in parallel mode every submitted job of a stage is launched exactly
\* once, and the stage function returns only after every launched job has
\* run to completion: no job thread of the stage is running, or unjoined,
\* after the return.
C7_ReturnsAfterAllJobs ==
    \A r \in Runs :
        /\ \A n \in JobsOf(r) : pool[r].jobs[n].launches <= 1
        /\ (g_use_multithreading /\ pool[r].pc = "returned")
           => /\ \A n \in JobsOf(r) :
                    pool[r].jobs[n].launches = 1 /\ pool[r].jobs[n].st = "done"
              /\ Unjoined(r) = {}

\* A parallel stage with more jobs than the cap has returned.
C7_Witness ==
    \E r \in Runs :
        /\ g_use_multithreading
        /\ pool[r].pc = "returned"
        /\ Len(pool[r].jobs) > Cap(pool[r].kind)

\* The files the serial code writes for job n, given what the external
\* commands did for that job.
SerialWrites(r, n) ==
    JobWrites(pool[r], n, pool[r].jobs[n].env, pool[r].jobs[n].figs, FALSE)

\* The files written by worker r's stage: figures for the classification
\* stage, page images for the others.
StageOutputs(r) ==
    {f \in files : f.doc = pool[r].doc /\ ((f.fig > 0) <=> (pool[r].kind = "cv"))}

\* C8: serial and parallel execution produce the same set of page-image and
\* accepted-figure files (same count, same per-image figure indices), for
\* every interleaving of the parallel jobs: when a stage returns, in either
\* mode, the files it has written are those the serial code writes for the
\* same jobs and the same results of the external commands.
C8_SameOutputsAsSerial ==
    \A r \in Runs :
        pool[r].pc = "returned"
        => /\ \A n \in JobsOf(r) : pool[r].jobs[n].env # "none"
           /\ StageOutputs(r) = UNION {SerialWrites(r, n) : n \in JobsOf(r)}

\* A parallel DJVU extraction stage has returned with a page kept and a page
\* whose artifact was undersized.
C8_Witness ==
    \E r \in Runs :
        /\ g_use_multithreading
        /\ pool[r].pc = "returned"
        /\ pool[r].kind = "djvu_extract"
        /\ \E m, n \in JobsOf(r) :
              pool[r].jobs[m].env = "ok" /\ pool[r].jobs[n].env = "undersized"

(***************************************************************************)
(* Claims about the run (Spec).                                            *)
(***************************************************************************)
\* C2: for any non-empty input set, capability matrix and mode flags, once
\* the background worker has processed every document, processed == total.
C2_FinishedRunReachesTotal ==
    (runs = 1 /\ worker[1].pc = "done")
    => g_processed_work_units = g_total_work_units

\* C3: g_total_work_units is >= 1 whenever the polling consumer reads it or
\* divides by it (update_ui_cb is pending or running), also when every input
\* document is unsupported; with an empty input set no poll is ever armed.
C3_TotalPositiveWhenPolled ==
    /\ (timer_armed \/ ui_pc = "check") => g_total_work_units >= 1
    /\ input_files_vec = <<>> => ~timer_armed /\ ui_pc = "idle"

\* The poll has read the total of a run whose documents are all unsupported.
C3_Witness ==
    /\ ui_pc = "check"
    /\ \A i \in 1 .. Len(input_files_vec) : ~Supported(input_files_vec[i].ftype, caps)
    /\ g_total_work_units = 1

\* C4: within one run (between two resets by start_cb) the processed counter
\* only increases, and every reported percentage lies in [0,100] and is not
\* smaller than the one reported before it in the same run, even when
\* processed exceeds total.
C4_ProgressMonotone ==
    [][/\ PctLeq(<<0, 1>>, pct') /\ PctLeq(pct', <<100, 1>>)
       /\ runs' = runs => /\ g_processed_work_units' >= g_processed_work_units
                          /\ PctLeq(pct, pct')]_vars

\* A poll has reported 100 with the counter beyond the estimate.
C4_Witness ==
    /\ ui_pc = "check"
    /\ g_processed_work_units > g_total_work_units
    /\ pct = <<100, 1>>

(***************************************************************************)
(* Claims about the page-file names (SpecNaming).                          *)
(***************************************************************************)
\* C9: the output filename of every page job is a function of the job's page
\* index only (zero-padded to 4 digits), is defined for every page index
\* >= 1, and distinct page indices yield distinct filenames: every page job
\* comes to a name, the name has at least 4 digits, no zero before a number
\* of more than 4 digits, and reads back as the page index.
C9_NameDefinedAndDecodable ==
    /\ naming.pc # "terminated"
    /\ naming.pc = "named"
       => /\ Len(naming.name) >= 4
          /\ Len(naming.name) > 4 => naming.name[1] # 0
          /\ stoi(naming.name) = naming.page

(***************************************************************************)
(* Claims about the classifier (SpecClassify).                             *)
(***************************************************************************)
\* The candidates the scan has decided so far, and the accepted ones.
Decided == 1 .. (scan.i - 1)
Accepted == {scan.figures[x] : x \in 1 .. Len(scan.figures)}

\* C10: every candidate with density > 20 is accepted if and only if
\* hasGraphicalContent is true of it, whether OCR is enabled or not and
\* whatever OCR would return on it.
C10_DenseAcceptedIffGraphics ==
    \A k \in Decided :
        scan.candidates[k].textDensity > 20
        => (k \in Accepted <=> scan.candidates[k].hasGraphics)

\* With OCR enabled and reporting a text block on both, a candidate of
\* density above 20 with graphics was accepted and one without was rejected.
C10_Witness ==
    /\ scan.pc = "returned"
    /\ scan.tess /\ scan.useOCR
    /\ \E k, m \in Decided :
         /\ scan.candidates[k].textDensity > 20 /\ scan.candidates[m].textDensity > 20
         /\ isTextBlock(scan.tess, scan.candidates[k])
         /\ isTextBlock(scan.tess, scan.candidates[m])
         /\ scan.candidates[k].hasGraphics /\ k \in Accepted
         /\ ~scan.candidates[m].hasGraphics /\ m \notin Accepted

\* What Tesseract reports on candidate k is a text block: confidence above 70
\* and more than 25 words.
OcrWouldConfirm(k) == scan.candidates[k].conf > 70 /\ scan.candidates[k].wordCount > 25

\* C11: every candidate with density < 2 is accepted, for every value of
\* hasGraphicalContent and every OCR setting and result.
C11_SparseAccepted ==
    \A k \in Decided : scan.candidates[k].textDensity < 2 => k \in Accepted

\* With OCR on, a candidate of density below 2 without graphics, on which
\* Tesseract reports a text block, was accepted.
C11_Witness ==
    /\ scan.pc = "returned" /\ scan.tess /\ scan.useOCR
    /\ \E k \in Decided :
         /\ scan.candidates[k].textDensity < 2
         /\ ~scan.candidates[k].hasGraphics
         /\ OcrWouldConfirm(k)
         /\ k \in Accepted

\* C12: every candidate with 10 < density <= 20 is rejected, for every value
\* of hasGraphicalContent and every OCR setting and result; density 20 is in
\* the band, density 10 is not (it is decided as the band 2..10 is).
C12_PureTextRejected ==
    \A k \in Decided :
        /\ (scan.candidates[k].textDensity > 10 /\ scan.candidates[k].textDensity <= 20)
           => k \notin Accepted
        /\ (scan.candidates[k].textDensity = 10 /\ scan.candidates[k].hasGraphics
            /\ ~(scan.tess /\ OcrWouldConfirm(k)))
           => k \in Accepted

\* A candidate of density 20 and one of density 11, both with graphics, were
\* rejected in a scan without OCR.
C12_Witness ==
    /\ scan.pc = "returned" /\ ~scan.tess
    /\ \E k, m \in Decided :
         /\ scan.candidates[k].textDensity = 20 /\ scan.candidates[k].hasGraphics
         /\ scan.candidates[m].textDensity = 11 /\ scan.candidates[m].hasGraphics
         /\ k \notin Accepted /\ m \notin Accepted

\* C13: a candidate with 2 <= density <= 10 is rejected when OCR is enabled
\* and available and confirms a text block; in every other case (OCR off,
\* unavailable or not initialized, or not confirming) it is accepted if and
\* only if hasGraphicalContent is true.
C13_MiddleBandDecidedByOcrThenGraphics ==
    \A k \in Decided :
        (scan.candidates[k].textDensity >= 2 /\ scan.candidates[k].textDensity <= 10)
        => (k \in Accepted
            <=> /\ ~(/\ scan.use_tesseract /\ scan.support_TESSERACT /\ scan.init_ok
                     /\ OcrWouldConfirm(k))
                /\ scan.candidates[k].hasGraphics)

\* With OCR on, of two candidates of the middle band with graphics the one
\* on which Tesseract reports a text block was rejected and the other one
\* accepted.
C13_Witness ==
    /\ scan.pc = "returned" /\ scan.tess /\ scan.useOCR
    /\ \E k, m \in Decided :
         /\ scan.candidates[k].textDensity \in 2 .. 10
         /\ scan.candidates[m].textDensity \in 2 .. 10
         /\ scan.candidates[k].hasGraphics /\ scan.candidates[m].hasGraphics
         /\ OcrWouldConfirm(k) /\ ~OcrWouldConfirm(m)
         /\ k \notin Accepted /\ m \in Accepted

(***************************************************************************)
(* Claims about the candidate generator (SpecCandidates).                  *)
(***************************************************************************)
Listed == 1 .. Len(gen.candidates)

\* The tight contour box candidate k was made from.
Tight(k) == gen.contours[gen.candidates[k].contour]

\* C14: every candidate box lies within its parent image: 0 <= x, 0 <= y,
\* x + width <= imageWidth, y + height <= imageHeight, width and height
\* positive, for every tight contour box inside the image, those touching an
\* image edge included.
C14_CandidateInsideImage ==
    \A k \in Listed :
        LET b == gen.candidates[k].bbox
        IN /\ 0 <= b.x /\ 0 <= b.y
           /\ b.x + b.width <= gen.cols /\ b.y + b.height <= gen.rows
           /\ b.width > 0 /\ b.height > 0

\* A contour box on the right and bottom edges and one on the left and top
\* edges were both stored.
C14_Witness ==
    /\ gen.pc = "listed"
    /\ \E k, m \in Listed :
         /\ Tight(k).x + Tight(k).width = gen.cols
         /\ Tight(k).y + Tight(k).height = gen.rows
         /\ Tight(m).x = 0 /\ Tight(m).y = 0

\* C15: the stored box of a candidate is exactly the tight contour box
\* extended by floor(5% of its width) on the left and on the right and by
\* floor(5% of its height) on the top and on the bottom, intersected with the
\* image; a tight box nearer to the left or top edge than its pad extends no
\* further right or down than its tight edge plus the pad.
C15_StoredBoxIsPaddedTightBox ==
    \A k \in Listed :
        LET t == Tight(k)
            b == gen.candidates[k].bbox
            padX == (5 * t.width) \div 100
            padY == (5 * t.height) \div 100
            left == IF t.x - padX < 0 THEN 0 ELSE t.x - padX
            top == IF t.y - padY < 0 THEN 0 ELSE t.y - padY
            right == IF t.x + t.width + padX > gen.cols THEN gen.cols
                     ELSE t.x + t.width + padX
            bottom == IF t.y + t.height + padY > gen.rows THEN gen.rows
                      ELSE t.y + t.height + padY
        IN /\ b.x = left /\ b.y = top
           /\ b.x + b.width = right /\ b.y + b.height = bottom

\* C16: no contour whose bounding box has an area below 1% or above 70% of
\* the image area, or a width or a height below 100 pixels, contributes a
\* candidate, and every contour box that passes the three tests contributes
\* exactly one candidate.
C16_CandidatesAreThePassingBoxes ==
    gen.pc = "listed"
    => \A c \in 1 .. Len(gen.contours) :
          LET t == gen.contours[c]
              area == t.width * t.height
              pixels == gen.cols * gen.rows
              passes == /\ 100 * area >= pixels
                        /\ 10 * area <= 7 * pixels
                        /\ t.width >= 100 /\ t.height >= 100
          IN Cardinality({k \in Listed : gen.candidates[k].contour = c})
                = IF passes THEN 1 ELSE 0

(***************************************************************************)
(* Claims about the figures of one image (SpecFigures).                    *)
(***************************************************************************)
Written == 1 .. Len(scan.written)

\* C17: the candidates are scanned in order of non-increasing area, and the
\* accepted figures of one image are written with the indices 1..N, without
\* gap or duplicate, in that scan order, so that figure i has an area >=
\* figure i+1; a rejected candidate consumes no index.
C17_FiguresNumberedInScanOrder ==
    /\ scan.pc # "sort"
       => \A k, m \in 1 .. Len(scan.candidates) :
             k < m => scan.candidates[k].area >= scan.candidates[m].area
    /\ \A x \in Written :
          /\ scan.written[x].index = x
          /\ scan.written[x].cand \in Accepted
    /\ \A x, y \in Written :
          x < y => /\ scan.written[x].cand < scan.written[y].cand
                   /\ scan.candidates[scan.written[x].cand].area
                         >= scan.candidates[scan.written[y].cand].area
    /\ scan.pc = "written"
       => /\ {scan.written[x].cand : x \in Written} = Accepted
          /\ {scan.written[x].index : x \in Written} = 1 .. Cardinality(Accepted)
          /\ Accepted \subseteq Decided

\* Two figures were written, the first one found after the second one in
\* contour order, with a rejected candidate scanned between them.
C17_Witness ==
    /\ scan.pc = "written"
    /\ Len(scan.written) = 2
    /\ scan.written[2].cand - scan.written[1].cand = 2
    /\ scan.candidates[scan.written[1].cand].contour
          > scan.candidates[scan.written[2].cand].contour
    /\ scan.candidates[scan.written[1].cand].area
          > scan.candidates[scan.written[2].cand].area

(***************************************************************************)
(* Claims about the dispatch of a document (Spec).                         *)
(***************************************************************************)
\* The worker of run r is at a document of type ftype.
WorkerAt(r, ftype) ==
    /\ worker[r].pc \notin {"none", "done"}
    /\ worker[r].i <= Len(input_files_vec)
    /\ CurDoc(r).ftype = ftype

\* C18 as stated: a PDF document is dispatched to RenderThenDetect whenever
\* the PDF render capability is available, for every setting of the other
\* capabilities and of the vision-assisted mode flag: with the capability
\* a PDF is never handed to the embedded extraction.
C18_PdfRenderedWheneverRenderCapable ==
    \A r \in Runs :
        (WorkerAt(r, "pdf") /\ caps.PDF_RENDER) => worker[r].pc # "extract"

\* C18 as amended: a PDF document is dispatched to RenderThenDetect, every
\* page of it submitted to the render stage, exactly when the vision-assisted
\* mode is on and both the PDF capability and the PDF render capability are
\* available; with the mode off, or without the render capability, a
\* supported PDF goes to the embedded extraction.
C18_PdfRenderedIffVisionAndRenderCapable ==
    \A r \in Runs :
        WorkerAt(r, "pdf")
        => /\ worker[r].pc = "render"
              => /\ worker[r].use_opencv /\ caps.PDF_RENDER /\ caps.PDF
                 /\ pool[r].kind = "pdf_render"
                 /\ Len(pool[r].jobs) = CurDoc(r).pages
                 /\ \A n \in 1 .. Len(pool[r].jobs) :
                       pool[r].jobs[n].input = [kind |-> "page", idx |-> n]
           /\ worker[r].pc = "extract"
              => caps.PDF /\ ~(worker[r].use_opencv /\ caps.PDF_RENDER)

\* The render stage of a PDF has returned, with the DJVU and the conversion
\* tooling missing.
C18_Witness ==
    \E r \in Runs :
        /\ WorkerAt(r, "pdf")
        /\ worker[r].pc = "render"
        /\ pool[r].pc = "returned"
        /\ ~caps.DJVU /\ ~caps.DOC

\* C19: a document whose detected type has no matching capability is
\* skipped: the step of the worker that leaves it runs no render, extract,
\* convert or classification job (no file is written, no stage entered) and
\* increments the processed counter by exactly one.
C19_UnsupportedSkippedAndCounted ==
    [][\A r \in Runs :
         (/\ worker[r].pc = "loop"
          /\ worker'[r] # worker[r]
          /\ LET t == CurDoc(r).ftype
             IN ~(\/ t = "pdf" /\ caps.PDF
                  \/ t = "djvu" /\ caps.DJVU
                  \/ t = "doc_legacy" /\ caps.DOC
                  \/ t = "zip_container" /\ caps.EPUB))
         => /\ g_processed_work_units' = g_processed_work_units + 1
            /\ files' = files
            /\ pool' = pool
            /\ worker'[r].i = worker[r].i + 1
            /\ worker'[r].pc \in {"loop", "done"}]_vars

\* The worker is through two documents, a PDF without the PDF capability and
\* one of an unknown type, with two units counted and no file written.
C19_Witness ==
    /\ runs = 1 /\ worker[1].pc = "done"
    /\ Len(input_files_vec) = 2
    /\ input_files_vec[1].ftype = "pdf" /\ ~caps.PDF /\ caps.PDF_RENDER
    /\ input_files_vec[2].ftype = "unknown"
    /\ opencv_value
    /\ g_processed_work_units = 2
    /\ files = {}

\* C20: when an extraction that is not a pool job fails (pdfimages, unzip, or
\* the conversion of a legacy document and the unzip after it), the batch
\* goes on and the processed counter is still incremented exactly once for
\* it: when the extraction of the first document of a run has returned, one
\* unit is counted.
C20_FailedExtractionCountsOnce ==
    \A r \in Runs :
        (/\ r = runs
         /\ worker[r].pc = "cv_check"
         /\ worker[r].i = 1
         /\ CurDoc(r).ftype \in {"pdf", "zip_container", "doc_legacy"})
        => g_processed_work_units = 1

\* C21: when the conversion to PDF of lines 821-850 fails, no page is rendered
\* (no render stage starts, no file is written) and the document goes on to
\* the extraction of its type: extract_zip_container for a zip container,
\* convert_and_extract_legacy_doc for a legacy document; when the conversion
\* succeeds the pages are rendered and no extraction runs for the document.
C21_ConversionFailureFallsThrough ==
    [][\A r \in Runs :
         LET w == worker[r]
             w2 == worker'[r]
             ftype == input_files_vec[w.i].ftype
         IN /\ (w.pc = "loop" /\ w2.i = w.i /\ w2.converted = 0)
               => /\ w2.pc = "extract"
                  /\ pool'[r] = NoPool
                  /\ files' = files
            /\ (w.pc = "extract" /\ w.converted = 0 /\ w2 # w)
               => /\ ftype \in {"zip_container", "doc_legacy"}
                  /\ ftype = "zip_container" => extract_zip_container(r)
                  /\ ftype = "doc_legacy" => convert_and_extract_legacy_doc(r)
            /\ (w.pc = "loop" /\ w2.i = w.i /\ w2.converted > 0)
               => /\ w2.pc = "render"
                  /\ pool'[r].kind = "pdf_render"
                  /\ Len(pool'[r].jobs) = w2.converted
            /\ (w.converted > 0 /\ w2.i = w.i)
               => w2.pc \notin {"extract", "djvu_extract", "cv_check"}]_vars

\* The conversion of a zip container failed and unzip has extracted its
\* images; no page of the document was rendered.
C21_Witness ==
    /\ runs = 1 /\ worker[1].pc = "cv_check"
    /\ worker[1].converted = 0
    /\ CurDoc(1).ftype = "zip_container"
    /\ ImageFiles(worker[1].i, MaxArchiveImages) \subseteq files
    /\ \A f \in files : f.kind # "page"

\* C22: a worker handles the documents of the input list once each, in list
\* order: its index starts at the first document, moves by one, and the thread
\* ends past the last document. The index moves only when the work of the
\* document is over (no stage is open, or the open stage has returned with
\* every job finished and every thread joined), whatever the external commands
\* returned, and a step writes files of the current document only.
C22_DocumentsInOrderOneAtATime ==
    [][\A r \in Runs :
         LET w == worker[r]
             w2 == worker'[r]
             p == pool[r]
         IN /\ (w.pc = "none" /\ w2.pc # "none") => (w2.i = 1 /\ w2.pc = "loop")
            /\ (w.pc # "none" /\ w2.i # w.i)
               => /\ w2.i = w.i + 1
                  /\ w.i \in 1 .. Len(input_files_vec)
                  /\ w2.pc = (IF w2.i > Len(input_files_vec) THEN "done" ELSE "loop")
                  /\ p.pc \in {"none", "returned"}
                  /\ \A n \in 1 .. Len(p.jobs) : p.jobs[n].st = "done"
                  /\ \A n \in 1 .. Len(p.threads) : ~p.threads[n].joinable
                  /\ pool'[r] = NoPool
            /\ (p.pc # "none") => p.doc = w.i
            /\ (r = runs) => \A f \in files' \ files : f.doc = w.i]_vars

\* The worker is at the second document, one of whose render jobs is running,
\* after a first document (a PDF) that left no file and one unit counted.
C22_Witness ==
    /\ runs = 1 /\ worker[1].i = 2 /\ worker[1].pc = "render"
    /\ input_files_vec[1].ftype = "pdf" /\ caps.PDF /\ caps.PDF_RENDER
    /\ \A f \in files : f.doc # 1
    /\ g_processed_work_units = 1
    /\ \E n \in 1 .. Len(pool[1].jobs) : pool[1].jobs[n].st = "running"

\* C23: the total start_cb leaves is max(1, sum of cost(d)) over the input
\* list, where cost(d) is 2 * pages(d) when the vision mode is on and a render
\* path of the dispatcher applies to d (direct rendering or conversion), 6 when
\* the mode is on and none applies, and with the mode off pages(d) for a DJVU
\* and 1 for every other type; pages(d) is 1 for every type but PDF and DJVU.
C23_Pages(doc) == IF doc.ftype \in {"pdf", "djvu"} THEN doc.pages ELSE 1

C23_Cost(doc, vision, c) ==
    IF vision
    THEN IF DirectRender(doc.ftype, c) \/ ConvertPath(doc.ftype, c)
         THEN 2 * C23_Pages(doc)
         ELSE 6
    ELSE IF doc.ftype = "djvu" THEN C23_Pages(doc) ELSE 1

RECURSIVE C23_Sum(_, _, _, _)
C23_Sum(docs, n, vision, c) ==
    IF n = 0 THEN 0 ELSE C23_Sum(docs, n - 1, vision, c) + C23_Cost(docs[n], vision, c)

C23_EstimateIsFlooredSumOfCosts ==
    (runs = 1) =>
        g_total_work_units =
            Max2(1, C23_Sum(input_files_vec, Len(input_files_vec), opencv_value, caps))

\* A run was started in vision mode on a three-page DJVU and a two-page PDF,
\* both renderable: the total is 2 * 3 + 2 * 2.
C23_Witness ==
    /\ runs = 1 /\ opencv_value
    /\ input_files_vec = <<[ftype |-> "djvu", pages |-> 3], [ftype |-> "pdf", pages |-> 2]>>
    /\ caps.DJVU /\ caps.PDF_RENDER
    /\ g_total_work_units = 10

\* C24: in serial mode the jobs of a stage run one at a time in submission
\* order and no thread is spawned: at every point of the stage the jobs before
\* the loop index have run once, completed and incremented the counter once,
\* the jobs from the loop index on have not started, and the thread vector is
\* empty.
C24_SerialRunsInSubmissionOrder ==
    \A r \in Runs :
        (pool[r].pc # "none" /\ ~g_use_multithreading)
        => /\ pool[r].threads = <<>>
           /\ pool[r].active_threads = 0
           /\ pool[r].k \in 1 .. Len(pool[r].jobs) + 1
           /\ \A n \in 1 .. Len(pool[r].jobs) :
                IF n < pool[r].k
                THEN /\ pool[r].jobs[n].st = "done"
                     /\ pool[r].jobs[n].launches = 1
                     /\ pool[r].jobs[n].incs = 1
                ELSE /\ pool[r].jobs[n].st = "new"
                     /\ pool[r].jobs[n].launches = 0
                     /\ pool[r].jobs[n].incs = 0

\* A serial DJVU extraction is before its third page: djvuextract failed on
\* the first page, the second page was rendered.
C24_Witness ==
    /\ ~g_use_multithreading
    /\ pool[1].kind = "djvu_extract" /\ pool[1].pc = "iter"
    /\ Len(pool[1].jobs) = 3 /\ pool[1].k = 3
    /\ pool[1].jobs[1].env = "extract_fail"
    /\ pool[1].jobs[2].env = "ok"
    /\ g_processed_work_units = 2

\* C25: a page of extract_djvu_images leaves a page image in the output only
\* if its artifact is not below 200 bytes and the rendered image is not below
\* 1000 bytes; a page whose artifact is below 200 bytes is not rendered, and a
\* rendered image below 1000 bytes is not in the output.
C25_UndersizedFilesAreFiltered ==
    (page_job.pc = "returned")
    => /\ page_job.output_png
          => /\ page_job.iw44_size >= SIZE_THRESHOLD
             /\ page_job.png_size >= FinalCheckSize
       /\ page_job.iw44_size < SIZE_THRESHOLD => ~page_job.rendered
       /\ (page_job.rendered /\ page_job.png_size < FinalCheckSize)
          => ~page_job.output_png

\* C26: isTextBlock confirms a text block if and only if the engine is there,
\* the mean confidence is above 70 and the text has more than 25 words, a word
\* being a maximal run of non-whitespace characters; a confidence of exactly
\* 70 or exactly 25 words does not confirm.
C26_Words(text) ==
    Cardinality({i \in 1 .. Len(text) :
                    /\ text[i] \notin Whitespace
                    /\ (i = 1 \/ text[i - 1] \in Whitespace)})

C26_ConfirmsIffAboveBothThresholds ==
    (ocr.pc = "returned")
    => /\ ocr.result <=> (ocr.tess /\ ocr.conf > 70 /\ C26_Words(ocr.text) > 25)
       /\ ocr.conf = 70 => ~ocr.result
       /\ C26_Words(ocr.text) = 25 => ~ocr.result

\* A text of 26 four-character words separated by tab and newline, with
\* newlines around it, and a confidence of 71: confirmed.
C26_Witness ==
    /\ ocr.pc = "returned" /\ ocr.result
    /\ ocr.conf = 71
    /\ ocr.text = TextOf(26, <<"f", "i", "g", ".">>, <<"\t", "\n">>, <<"\n", "\n">>)

\* C27: within one document the classification stage is entered only after
\* the render or extraction stage has drained, in parallel and in serial mode:
\* at the step that opens the classification stage of a worker, any earlier
\* stage of the worker has returned with every job finished and every thread
\* joined, and no classification job has started yet.
C27_ClassificationAfterStageDrained ==
    [][\A r \in Runs :
         (pool'[r].kind = "cv" /\ pool[r].kind # "cv")
         => /\ pool'[r].doc = worker[r].i
            /\ worker'[r].i = worker[r].i
            /\ pool[r].pc \in {"none", "returned"}
            /\ pool[r].pc = "returned" => pool[r].doc = worker[r].i
            /\ \A n \in 1 .. Len(pool[r].jobs) : pool[r].jobs[n].st = "done"
            /\ \A n \in 1 .. Len(pool[r].threads) : ~pool[r].threads[n].joinable
            /\ \A n \in 1 .. Len(pool'[r].jobs) : pool'[r].jobs[n].st = "new"]_vars

\* A classification job of a PDF is running in parallel mode; the page it
\* classifies was rendered by the stage before.
C27_Witness ==
    /\ runs = 1 /\ g_use_multithreading
    /\ worker[1].pc = "cv" /\ pool[1].kind = "cv"
    /\ CurDoc(1).ftype = "pdf"
    /\ pool[1].jobs[1].st = "running"
    /\ pool[1].jobs[1].input.kind = "page"

\* C28: at most one process_files_thread has work left: update_ui_cb
\* declares the run complete and reactivates the Start control only after the
\* worker of the run is through all documents, so whenever start_cb can be
\* pressed (the controls are active and the main thread is idle) no document
\* of a run is still to come and no job of a stage is running or waiting to
\* be launched.
C28_StartOnlyWhenWorkerFinished ==
    (controls_active /\ ui_pc = "idle")
    => \A r \in Runs :
          /\ worker[r].pc # "none" => worker[r].i >= Len(input_files_vec)
          /\ \A n \in 1 .. Len(pool[r].jobs) : pool[r].jobs[n].st = "done"

\* C29: the checks of the scan are first-match-wins: isTextBlock is called
\* for a candidate only if its density is between 2 and 10 inclusive and OCR
\* was asked for and is available; a candidate with density below 2 or above
\* 10 never gets a call, and no candidate gets more than one.
C29_OcrOnlyInMiddleBandOnce ==
    /\ \A n \in 1 .. Len(scan.ocr_calls) :
          LET c == scan.candidates[scan.ocr_calls[n]]
          IN /\ c.textDensity >= 2 /\ c.textDensity <= 10
             /\ scan.use_tesseract /\ scan.support_TESSERACT
             /\ scan.ocr_calls[n] < scan.i
    /\ \A n, m \in 1 .. Len(scan.ocr_calls) :
          scan.ocr_calls[n] = scan.ocr_calls[m] => n = m

\* Two candidates are through the scan with OCR on: the one of density 10 got
\* its call, the one of density 11 did not.
C29_Witness ==
    /\ scan.i = 3
    /\ scan.candidates[1].textDensity = 10
    /\ scan.candidates[2].textDensity = 11
    /\ scan.tess /\ scan.useOCR
    /\ scan.ocr_calls = <<1>>

\* C30: the vision mode can be on for a run only if the vision toolkit was
\* detected at start-up: the toggle check_dependencies deactivated is never
\* selectable again, also after a run has completed, and is never ticked.
C30_VisionToggleNeedsToolkit ==
    (opencv_active \/ opencv_value) => caps.OPENCV

====
